---- MODULE Spec2Model ----
(***************************************************************************)
(* A model of go/vt/topo/topoproto/tablet.go: the tablet alias codec       *)
(* (TabletAliasString, ParseTabletAlias, ParseUID), the TabletAliasList    *)
(* ordering, the tablet type registry (ParseTabletType(s),                 *)
(* TabletTypeLString, Make(Unique)StringTypeList, IsServingType), the      *)
(* package-level tabletTypeLowerName table built by init(), and            *)
(* TabletDbName.                                                           *)
(*                                                                         *)
(* Strings are sequences of byte values, so that Go's bytewise string      *)
(* comparison, strings.ToLower/ToUpper and the digit arithmetic of         *)
(* strconv.ParseUint are computed rather than assumed.  TLC's integers are *)
(* 32-bit signed, so a uint32 is held as two decimal limbs                 *)
(* [hi, lo] denoting hi * 10^5 + lo.                                       *)
(***************************************************************************)
EXTENDS Integers, Sequences, FiniteSets, TLC

VARIABLES
    phase,                \* "init": inside func init(); "ready": after it
    initTodo,             \* keys of TabletType_name the init loop has not visited
    tabletTypeLowerName,  \* the package-level map[int32]string
    reader,               \* per goroutine: position inside TabletTypeLString
    op,                   \* the function the last call ran
    arg,                  \* its argument
    res                   \* what it returned

vars == <<phase, initTodo, tabletTypeLowerName, reader, op, arg, res>>

---------------------------------------------------------------------------
(* Bounds of the model *)

\* longest free-form string drawn over Alphabet
MaxLen == 3
\* longest list of aliases, tablet types or comma-separated entries
MaxList == 3
\* extra leading zeros put before a uid's digits
MaxPad == 1
\* goroutines calling TabletTypeLString concurrently
NumReaders == 2

---------------------------------------------------------------------------
(* Strings as byte sequences *)

Upper == <<"A","B","C","D","E","F","G","H","I","J","K","L","M",
           "N","O","P","Q","R","S","T","U","V","W","X","Y","Z">>
Lower == <<"a","b","c","d","e","f","g","h","i","j","k","l","m",
           "n","o","p","q","r","s","t","u","v","w","x","y","z">>
Digits == <<"0","1","2","3","4","5","6","7","8","9">>

\* The ASCII code of a one-character string.
Ord(c) ==
    CASE \E i \in 1..26 : Upper[i] = c -> 64 + (CHOOSE i \in 1..26 : Upper[i] = c)
      [] \E i \in 1..26 : Lower[i] = c -> 96 + (CHOOSE i \in 1..26 : Lower[i] = c)
      [] \E i \in 1..10 : Digits[i] = c -> 47 + (CHOOSE i \in 1..10 : Digits[i] = c)
      [] c = " " -> 32
      [] c = "," -> 44
      [] c = "-" -> 45
      [] c = "." -> 46
      [] c = "<" -> 60
      [] c = ">" -> 62
      [] c = "_" -> 95

\* The byte string written as a tuple of one-character strings.
Str(cs) == [i \in 1..Len(cs) |-> Ord(cs[i])]

IsDigit(b) == b >= 48 /\ b <= 57
IsUpper(b) == b >= 65 /\ b <= 90
IsLower(b) == b >= 97 /\ b <= 122

\* Go's s < t on strings: bytewise lexicographic, a proper prefix is smaller.
RECURSIVE StrLess(_, _)
StrLess(s, t) ==
    IF t = <<>> THEN FALSE
    ELSE IF s = <<>> THEN TRUE
    ELSE IF Head(s) # Head(t) THEN Head(s) < Head(t)
    ELSE StrLess(Tail(s), Tail(t))

\* strings.ToLower / strings.ToUpper on ASCII.
ToLower(s) == [i \in 1..Len(s) |-> IF IsUpper(s[i]) THEN s[i] + 32 ELSE s[i]]
ToUpper(s) == [i \in 1..Len(s) |-> IF IsLower(s[i]) THEN s[i] - 32 ELSE s[i]]

\* All strings over alphabet A of length at most n.
RECURSIVE StringsUpTo(_, _)
StringsUpTo(A, n) ==
    IF n = 0 THEN {<<>>}
    ELSE LET shorter == StringsUpTo(A, n - 1)
         IN  shorter \cup {Append(s, a) : s \in shorter, a \in A}

---------------------------------------------------------------------------
(* uint32 as two decimal limbs *)

Limb == 10^5
U32(h, l) == [hi |-> h, lo |-> l]
\* math.MaxUint32 = 4294967295
MaxUint32 == U32(42949, 67295)
UidZero == U32(0, 0)
UidLess(u, v) == u.hi < v.hi \/ (u.hi = v.hi /\ u.lo < v.lo)
UidLeq(u, v) == u = v \/ UidLess(u, v)

\* The decimal digits of a natural number n < 10^5, most significant first.
RECURSIVE NatDigits(_)
NatDigits(n) ==
    IF n < 10 THEN <<48 + n>> ELSE Append(NatDigits(n \div 10), 48 + (n % 10))

\* s with zeros put in front of it up to width w (the 0 flag of %0wd).
RECURSIVE PadZero(_, _)
PadZero(s, w) == IF Len(s) >= w THEN s ELSE PadZero(<<48>> \o s, w)

\* The %d form of a uint32: its decimal digits without leading zeros.
UidDecimal(u) ==
    IF u.hi = 0 THEN NatDigits(u.lo)
    ELSE NatDigits(u.hi) \o PadZero(NatDigits(u.lo), 5)

---------------------------------------------------------------------------
(* Tablet aliases: a *topodatapb.TabletAlias is nil or points to a         *)
(* {Cell string, Uid uint32}                                               *)

NilAlias == [isNil |-> TRUE, Cell |-> <<>>, Uid |-> UidZero]
TabletAlias(c, u) == [isNil |-> FALSE, Cell |-> c, Uid |-> u]

\* An error value: its kind, the offending input it carries, and the cause
\* it wraps.  NoErr is Go's nil error.
Err(k, in, c) == [kind |-> k, input |-> in, cause |-> c]
NoErr == Err("nil", <<>>, "nil")

\* TabletAliasIsZero: ta == nil || (ta.Cell == "" && ta.Uid == 0)
TabletAliasIsZero(ta) == ta.isNil \/ (ta.Cell = <<>> /\ ta.Uid = UidZero)

\* s with blanks put in front of it up to width w (%wd without the 0 flag).
RECURSIVE PadSpace(_, _)
PadSpace(s, w) == IF Len(s) >= w THEN s ELSE PadSpace(<<32>> \o s, w)

\* TabletAliasString with the format "%v-%10d": the 0 flag forgotten.
TabletAliasStringSpacePad(ta) ==
    IF ta.isNil THEN Str(<<"<", "n", "i", "l", ">">>)
    ELSE ta.Cell \o Str(<<"-">>) \o PadSpace(UidDecimal(ta.Uid), 10)

\* TabletAliasString that tests TabletAliasIsZero(ta) where the code tests
\* ta == nil.
TabletAliasStringZeroAsNil(ta) ==
    IF TabletAliasIsZero(ta) THEN Str(<<"<", "n", "i", "l", ">">>)
    ELSE ta.Cell \o Str(<<"-">>) \o PadZero(UidDecimal(ta.Uid), 10)

\* TabletAliasString: "<nil>" for nil, else fmt.Sprintf("%v-%010d", Cell, Uid)
TabletAliasString(ta) ==
    IF ta.isNil THEN Str(<<"<", "n", "i", "l", ">">>)
    ELSE ta.Cell \o Str(<<"-">>) \o PadZero(UidDecimal(ta.Uid), 10)

\* TabletAliasUIDStr: fmt.Sprintf("%010d", ta.Uid)
TabletAliasUIDStr(ta) == PadZero(UidDecimal(ta.Uid), 10)

\* strconv.ParseUint(value, 10, 32): digit by digit, a syntax error on an
\* empty string or a non-digit, a range error as soon as the value passes
\* math.MaxUint32.
RECURSIVE ParseUintFrom(_, _, _)
ParseUintFrom(s, i, n) ==
    IF i > Len(s) THEN [val |-> n, err |-> "nil"]
    ELSE IF ~IsDigit(s[i]) THEN [val |-> UidZero, err |-> "ErrSyntax"]
    ELSE LET lo10 == n.lo * 10 + (s[i] - 48)
             n1 == U32(n.hi * 10 + (lo10 \div Limb), lo10 % Limb)
         IN  IF UidLess(MaxUint32, n1)
             THEN [val |-> MaxUint32, err |-> "ErrRange"]
             ELSE ParseUintFrom(s, i + 1, n1)

ParseUint(s) ==
    IF s = <<>> THEN [val |-> UidZero, err |-> "ErrSyntax"]
    ELSE ParseUintFrom(s, 1, UidZero)

\* ParseUID: the uid, or 0 and the ParseUint error wrapped as "bad tablet uid".
ParseUID(value) ==
    LET r == ParseUint(value)
    IN  IF r.err # "nil"
        THEN [uid |-> UidZero, err |-> Err("BadTabletUid", value, r.err)]
        ELSE [uid |-> r.val, err |-> NoErr]

\* The character class written [_.a-zA-Z0-9]: the hyphen left out.
InCellClassNoHyphen(b) ==
    b = 95 \/ b = 46 \/ IsLower(b) \/ IsUpper(b) \/ IsDigit(b)

\* The character class [-_.a-zA-Z0-9] of tabletAliasFormat.
InCellClass(b) ==
    b = 45 \/ b = 95 \/ b = 46 \/ IsLower(b) \/ IsUpper(b) \/ IsDigit(b)

\* The bytes lo..hi of s are all of the cell class / all digits.
AllInCellClass(s, lo, hi) == \A k \in lo..hi : InCellClass(s[k])
AllDigits(s, lo, hi) == \A k \in lo..hi : IsDigit(s[k])

\* tabletAliasRegexp.FindStringSubmatch for
\* ^(?P<cell>[-_.a-zA-Z0-9]+)-(?P<uid>[0-9]+)$ : the greedy cell group is
\* tried at its longest first (n bytes) and gives bytes back one at a time;
\* the result is <<whole, cell, uid>>, or the empty (nil) slice.
RECURSIVE FindStringSubmatchFrom(_, _)
FindStringSubmatchFrom(s, n) ==
    IF n < 1 THEN <<>>
    ELSE IF /\ AllInCellClass(s, 1, n)
            /\ n + 1 <= Len(s) /\ s[n + 1] = 45
            /\ n + 2 <= Len(s) /\ AllDigits(s, n + 2, Len(s))
         THEN <<s, SubSeq(s, 1, n), SubSeq(s, n + 2, Len(s))>>
         ELSE FindStringSubmatchFrom(s, n - 1)

\* The pattern with (?P<cell>[-_.a-zA-Z0-9]*): a cell of no bytes matches.
RECURSIVE FindStringSubmatchEmptyCellFrom(_, _)
FindStringSubmatchEmptyCellFrom(s, n) ==
    IF n < 0 THEN <<>>
    ELSE IF /\ AllInCellClass(s, 1, n)
            /\ n + 1 <= Len(s) /\ s[n + 1] = 45
            /\ n + 2 <= Len(s) /\ AllDigits(s, n + 2, Len(s))
         THEN <<s, SubSeq(s, 1, n), SubSeq(s, n + 2, Len(s))>>
         ELSE FindStringSubmatchEmptyCellFrom(s, n - 1)

FindStringSubmatchEmptyCell(s) == FindStringSubmatchEmptyCellFrom(s, Len(s))

FindStringSubmatch(s) == FindStringSubmatchFrom(s, Len(s))

\* ParseTabletAlias
ParseTabletAlias(aliasStr) ==
    LET nameParts == FindStringSubmatch(aliasStr)
    IN  IF Len(nameParts) # 3
        THEN [ta |-> NilAlias,
              err |-> Err("InvalidFormat", aliasStr, "tabletAliasFormat")]
        ELSE LET u == ParseUID(nameParts[3])
             IN  IF u.err # NoErr
                 THEN [ta |-> NilAlias,
                       err |-> Err("InvalidUid", aliasStr, u.err.cause)]
                 ELSE [ta |-> TabletAlias(nameParts[2], u.uid), err |-> NoErr]

---------------------------------------------------------------------------
(* Tablet types: the topodatapb.TabletType enum.  BATCH is an alias of      *)
(* RDONLY (the same number under another name), which is what makes        *)
(* "rdonly" show up twice when AllTabletTypes is turned into strings.      *)

Name_UNKNOWN == Str(<<"U", "N", "K", "N", "O", "W", "N">>)
Name_PRIMARY == Str(<<"P", "R", "I", "M", "A", "R", "Y">>)
Name_REPLICA == Str(<<"R", "E", "P", "L", "I", "C", "A">>)
Name_RDONLY == Str(<<"R", "D", "O", "N", "L", "Y">>)
Name_BATCH == Str(<<"B", "A", "T", "C", "H">>)
Name_SPARE == Str(<<"S", "P", "A", "R", "E">>)
Name_EXPERIMENTAL == Str(<<"E", "X", "P", "E", "R", "I", "M", "E", "N", "T", "A", "L">>)
Name_BACKUP == Str(<<"B", "A", "C", "K", "U", "P">>)
Name_RESTORE == Str(<<"R", "E", "S", "T", "O", "R", "E">>)
Name_DRAINED == Str(<<"D", "R", "A", "I", "N", "E", "D">>)

TabletType_UNKNOWN == 0
TabletType_PRIMARY == 1
TabletType_REPLICA == 2
TabletType_RDONLY == 3
TabletType_BATCH == TabletType_RDONLY
TabletType_SPARE == 4
TabletType_EXPERIMENTAL == 5
TabletType_BACKUP == 6
TabletType_RESTORE == 7
TabletType_DRAINED == 8

\* topodatapb.TabletType_value: every enum name with its number.
TabletType_value ==
    {<<Name_UNKNOWN, TabletType_UNKNOWN>>, <<Name_PRIMARY, TabletType_PRIMARY>>,
     <<Name_REPLICA, TabletType_REPLICA>>, <<Name_RDONLY, TabletType_RDONLY>>,
     <<Name_BATCH, TabletType_BATCH>>, <<Name_SPARE, TabletType_SPARE>>,
     <<Name_EXPERIMENTAL, TabletType_EXPERIMENTAL>>,
     <<Name_BACKUP, TabletType_BACKUP>>, <<Name_RESTORE, TabletType_RESTORE>>,
     <<Name_DRAINED, TabletType_DRAINED>>}

\* topodatapb.TabletType_name: every number with its first-declared name.
TabletType_name ==
    {<<TabletType_UNKNOWN, Name_UNKNOWN>>, <<TabletType_PRIMARY, Name_PRIMARY>>,
     <<TabletType_REPLICA, Name_REPLICA>>, <<TabletType_RDONLY, Name_RDONLY>>,
     <<TabletType_SPARE, Name_SPARE>>,
     <<TabletType_EXPERIMENTAL, Name_EXPERIMENTAL>>,
     <<TabletType_BACKUP, Name_BACKUP>>, <<TabletType_RESTORE, Name_RESTORE>>,
     <<TabletType_DRAINED, Name_DRAINED>>}

\* A Go map as a set of <<key, value>> pairs: m[k] with its ok flag.
MapKeys(m) == {kv[1] : kv \in m}
MapHas(m, k) == k \in MapKeys(m)
MapGet(m, k) == (CHOOSE kv \in m : kv[1] = k)[2]

\* TabletType.String(): the enum name of the number, or the number in
\* decimal when the enum has no such value.
TabletTypeString(tt) ==
    IF MapHas(TabletType_name, tt) THEN MapGet(TabletType_name, tt)
    ELSE NatDigits(tt)

\* AllTabletTypes
AllTabletTypes ==
    <<TabletType_PRIMARY, TabletType_REPLICA, TabletType_RDONLY,
      TabletType_BATCH, TabletType_SPARE, TabletType_EXPERIMENTAL,
      TabletType_BACKUP, TabletType_RESTORE, TabletType_DRAINED>>

\* strings.TrimSpace, for blanks.
RECURSIVE TrimSpace(_)
TrimSpace(s) ==
    IF s # <<>> /\ Head(s) = 32 THEN TrimSpace(Tail(s))
    ELSE IF s # <<>> /\ s[Len(s)] = 32 THEN TrimSpace(SubSeq(s, 1, Len(s) - 1))
    ELSE s

\* ParseTabletType that trims its parameter before the lookup.
ParseTabletTypeTrimmed(param) ==
    IF ~MapHas(TabletType_value, ToUpper(TrimSpace(param)))
    THEN [type |-> TabletType_UNKNOWN, err |-> Err("UnknownRole", param, "nil")]
    ELSE [type |-> MapGet(TabletType_value, ToUpper(TrimSpace(param))),
          err |-> NoErr]

\* ParseTabletType: look strings.ToUpper(param) up in TabletType_value.
ParseTabletType(param) ==
    IF ~MapHas(TabletType_value, ToUpper(param))
    THEN [type |-> TabletType_UNKNOWN, err |-> Err("UnknownRole", param, "nil")]
    ELSE [type |-> MapGet(TabletType_value, ToUpper(param)), err |-> NoErr]

\* strings.Split(s, sep) for a one-byte sep: the pieces between the
\* separators, one more than there are separators.
RECURSIVE SplitFrom(_, _, _, _)
SplitFrom(s, sep, i, cur) ==
    IF i > Len(s) THEN <<cur>>
    ELSE IF s[i] = sep THEN <<cur>> \o SplitFrom(s, sep, i + 1, <<>>)
    ELSE SplitFrom(s, sep, i + 1, Append(cur, s[i]))

Split(s, sep) == SplitFrom(s, sep, 1, <<>>)

\* ParseTabletTypes: the loop over strings.Split(param, ","), returning
\* (nil, err) at the first entry ParseTabletType rejects.
RECURSIVE ParseTabletTypesLoop(_, _, _)
ParseTabletTypesLoop(parts, i, tabletTypes) ==
    IF i > Len(parts) THEN [types |-> tabletTypes, err |-> NoErr]
    ELSE LET r == ParseTabletType(parts[i])
         IN  IF r.err # NoErr THEN [types |-> <<>>, err |-> r.err]
             ELSE ParseTabletTypesLoop(parts, i + 1, Append(tabletTypes, r.type))

ParseTabletTypes(param) == ParseTabletTypesLoop(Split(param, 44), 1, <<>>)

\* TabletTypeLString: the cached lower-case name, "unknown" on a miss.
\* tbl is the tabletTypeLowerName it reads.
Name_unknown == ToLower(Name_UNKNOWN)
TabletTypeLString(tbl, tabletType) ==
    IF ~MapHas(tbl, tabletType) THEN Name_unknown ELSE MapGet(tbl, tabletType)

\* IsTypeInList
IsTypeInList(tabletType, types) == \E i \in 1..Len(types) : types[i] = tabletType

\* IsServingType with BATCH missing from the case list.
IsServingTypeNoBatch(tabletType) ==
    tabletType \in {TabletType_PRIMARY, TabletType_REPLICA,
                    TabletType_EXPERIMENTAL}

\* IsServingType: the switch over PRIMARY, REPLICA, BATCH, EXPERIMENTAL.
IsServingType(tabletType) ==
    tabletType \in {TabletType_PRIMARY, TabletType_REPLICA, TabletType_BATCH,
                    TabletType_EXPERIMENTAL}

---------------------------------------------------------------------------
(* Sorting: sort.Sort and sort.Strings run an insertion sort on inputs     *)
(* this short, driven by the sequence's Less and Swap                      *)

\* Less without the "else if tal[i].Cell > tal[j].Cell" branch: a greater
\* cell falls through to the comparison of the uids.
TabletAliasListLessNoGreater(tal, i, j) ==
    IF StrLess(tal[i].Cell, tal[j].Cell) THEN TRUE
    ELSE UidLess(tal[i].Uid, tal[j].Uid)

\* TabletAliasList.Len / Less / Swap
TabletAliasListLen(tal) == Len(tal)
TabletAliasListLess(tal, i, j) ==
    IF StrLess(tal[i].Cell, tal[j].Cell) THEN TRUE
    ELSE IF StrLess(tal[j].Cell, tal[i].Cell) THEN FALSE
    ELSE UidLess(tal[i].Uid, tal[j].Uid)
TabletAliasListSwap(tal, i, j) == [tal EXCEPT ![i] = tal[j], ![j] = tal[i]]

\* sort.Sort's inner loop:
\* for j := i; j > a && data.Less(j, j-1); j-- { data.Swap(j, j-1) }
RECURSIVE AliasSiftDown(_, _)
AliasSiftDown(tal, j) ==
    IF j > 1 /\ TabletAliasListLess(tal, j, j - 1)
    THEN AliasSiftDown(TabletAliasListSwap(tal, j, j - 1), j - 1)
    ELSE tal

\* sort.Sort's outer loop: for i := a + 1; i < b; i++
RECURSIVE AliasSortFrom(_, _)
AliasSortFrom(tal, i) ==
    IF i > TabletAliasListLen(tal) THEN tal
    ELSE AliasSortFrom(AliasSiftDown(tal, i), i + 1)

\* sort.Sort(TabletAliasList(tal))
SortTabletAliasList(tal) == AliasSortFrom(tal, 2)

\* TabletAliasList.ToStringSlice: result[i] = TabletAliasString(alias)
RECURSIVE ToStringSliceFrom(_, _, _)
ToStringSliceFrom(tal, i, result) ==
    IF i > Len(tal) THEN result
    ELSE ToStringSliceFrom(tal, i + 1,
                           [result EXCEPT ![i] = TabletAliasString(tal[i])])

ToStringSlice(tal) ==
    ToStringSliceFrom(tal, 1, [i \in 1..TabletAliasListLen(tal) |-> <<>>])

\* sort.Strings: the same insertion sort with s[j] < s[j-1] as Less.
RECURSIVE StringSiftDown(_, _)
StringSiftDown(strs, j) ==
    IF j > 1 /\ StrLess(strs[j], strs[j - 1])
    THEN StringSiftDown([strs EXCEPT ![j] = strs[j - 1], ![j - 1] = strs[j]], j - 1)
    ELSE strs

RECURSIVE StringSortFrom(_, _)
StringSortFrom(strs, i) ==
    IF i > Len(strs) THEN strs
    ELSE StringSortFrom(StringSiftDown(strs, i), i + 1)

SortStrings(strs) == StringSortFrom(strs, 2)

\* MakeStringTypeList: the lower-cased String() of every type, sorted.
MakeStringTypeList(types) ==
    SortStrings([i \in 1..Len(types) |-> ToLower(TabletTypeString(types[i]))])

\* MakeUniqueStringTypeList whose loop never records what it has seen.
MakeUniqueStringTypeListNoSeen(types) ==
    SortStrings([i \in 1..Len(types) |-> ToLower(TabletTypeString(types[i]))])

\* MakeUniqueStringTypeList: the loop that skips a type whose String() was
\* seen, then the sort.
RECURSIVE UniqueLoop(_, _, _, _)
UniqueLoop(types, i, strs, seen) ==
    IF i > Len(types) THEN strs
    ELSE IF TabletTypeString(types[i]) \in seen
         THEN UniqueLoop(types, i + 1, strs, seen)
         ELSE UniqueLoop(types, i + 1,
                         Append(strs, ToLower(TabletTypeString(types[i]))),
                         seen \cup {TabletTypeString(types[i])})

MakeUniqueStringTypeList(types) == SortStrings(UniqueLoop(types, 1, <<>>, {}))

---------------------------------------------------------------------------
(* Tablet records: the fields of *topodatapb.Tablet that are read          *)

VtDbPrefix == Str(<<"v", "t", "_">>)

\* TabletDbName that tests the keyspace before the override.
TabletDbNameKeyspaceFirst(tablet) ==
    IF tablet.Keyspace = <<>> THEN <<>>
    ELSE IF tablet.DbNameOverride # <<>> THEN tablet.DbNameOverride
    ELSE VtDbPrefix \o tablet.Keyspace

\* TabletDbName
TabletDbName(tablet) ==
    IF tablet.DbNameOverride # <<>> THEN tablet.DbNameOverride
    ELSE IF tablet.Keyspace = <<>> THEN <<>>
    ELSE VtDbPrefix \o tablet.Keyspace

\* TabletIsAssigned
TabletIsAssigned(tablet) ==
    ~tablet.isNil /\ tablet.Keyspace # <<>> /\ tablet.Shard # <<>>

---------------------------------------------------------------------------
(* The inputs the calls are made with *)

Alphabet == {Ord("a"), Ord("-"), Ord("0"), Ord("7"), Ord(" ")}
FreeStrings == StringsUpTo(Alphabet, MaxLen)

\* uint32 values around 0, the limb boundary and math.MaxUint32
UidSamples ==
    {u \in {U32(h, l) : h \in {0, 1, 42948, 42949},
                        l \in {0, 1, 123, 67295, 67296, 99999}} :
        UidLeq(u, MaxUint32)}

\* Cells: every string over a letter, the hyphen and a digit (the empty
\* cell among them), and two cells with a byte outside the pattern's class.
Cells ==
    StringsUpTo({Ord("a"), Ord("-"), Ord("0")}, MaxLen)
        \cup {Str(<<" ">>), Str(<<"a", " ">>)}

AliasValues == {NilAlias} \cup {TabletAlias(c, u) : c \in Cells, u \in UidSamples}

\* Digit runs below, at and above math.MaxUint32, with leading zeros and
\* with one more digit.
Zeros(n) == [i \in 1..n |-> 48]
DigitRuns ==
    {Zeros(p) \o UidDecimal(U32(h, l)) \o z :
        h \in {0, 1, 42948, 42949, 42950, 99999},
        l \in {0, 1, 123, 67295, 67296, 99999},
        p \in 0..MaxPad, z \in {<<>>, Str(<<"0">>)}}

AliasStrings ==
    FreeStrings
        \cup {c \o Str(<<"-">>) \o d :
                c \in {Str(<<"a">>), Str(<<"a", "-", "b">>), Str(<<"a", " ">>)},
                d \in DigitRuns}

\* All sequences over S of length at most n.
RECURSIVE ListsUpTo(_, _)
ListsUpTo(S, n) ==
    IF n = 0 THEN {<<>>}
    ELSE LET shorter == ListsUpTo(S, n - 1)
         IN  shorter \cup {Append(l, x) : l \in shorter, x \in S}

\* Lists for ToStringSlice: nil, the zero alias and assigned aliases.
SliceAliases ==
    {NilAlias, TabletAlias(<<>>, UidZero), TabletAlias(Str(<<"a">>), U32(0, 1)),
     TabletAlias(Str(<<"b">>), MaxUint32), TabletAlias(<<>>, U32(0, 7))}
SliceLists == ListsUpTo(SliceAliases, MaxList)

\* Lists for sorting: cells that are equal, prefixes of one another and of
\* different case, uids on both sides of the limb boundary.
SortAliases ==
    {TabletAlias(Str(<<"a">>), U32(0, 2)), TabletAlias(Str(<<"a">>), U32(0, 5)),
     TabletAlias(Str(<<"b">>), U32(0, 1)), TabletAlias(Str(<<"a", "b">>), UidZero),
     TabletAlias(Str(<<"B">>), U32(0, 9)), TabletAlias(Str(<<"a">>), U32(1, 0)),
     TabletAlias(<<>>, MaxUint32)}
SortLists == ListsUpTo(SortAliases, MaxList)

\* Tablet types: the enum's values, and one number the enum does not have.
TabletTypes == MapKeys(TabletType_name)
TabletTypeNumbers == TabletTypes \cup {9}
TypeLists == ListsUpTo(TabletTypes, MaxList)

\* Entries of a comma-separated list of tablet types.
TypeEntries ==
    {Str(<<"r", "e", "p", "l", "i", "c", "a">>), Name_PRIMARY,
     Str(<<"B", "a", "t", "c", "h">>), ToLower(Name_RDONLY),
     Str(<<" ", "s", "p", "a", "r", "e">>), Str(<<"b", "o", "g", "u", "s">>),
     <<>>}
EntryLists == ListsUpTo(TypeEntries, MaxList) \ {<<>>}

\* strings.Join(entries, ",")
RECURSIVE Join(_)
Join(entries) ==
    IF Len(entries) = 1 THEN entries[1]
    ELSE entries[1] \o Str(<<",">>) \o Join(Tail(entries))

TypeListStrings == {Join(l) : l \in EntryLists}

Tablets ==
    [isNil : {FALSE},
     DbNameOverride : {<<>>, Str(<<"d", "b">>), Str(<<"v", "t", "_">>)},
     Keyspace : {<<>>, Str(<<"k", "s", "1">>), Str(<<"_">>)},
     Shard : {<<>>, Str(<<"0">>)}]

---------------------------------------------------------------------------
(* The state machine *)

Idle == [pc |-> "idle", tabletType |-> 0, value |-> <<>>, ok |-> FALSE]

\* The argument or result v of a call of function o.  Both are kept under
\* the function's name, so that the values of different functions, which are
\* of different types, are never compared with one another.
Of(o, v) == [f \in {o} |-> v]
Arg == arg[op]
Res == res[op]

\* Before func init() has run: the map variable is declared and empty.
Init ==
    /\ phase = "init"
    /\ initTodo = MapKeys(TabletType_name)
    /\ tabletTypeLowerName = {}
    /\ reader = [p \in 1..NumReaders |-> Idle]
    /\ op = "none"
    /\ arg = Of("none", <<>>)
    /\ res = Of("none", <<>>)

\* One iteration of init()'s range over TabletType_name (Go visits a map's
\* keys in no fixed order).
InitLoop ==
    /\ phase = "init"
    /\ \E k \in initTodo :
        /\ tabletTypeLowerName' =
               tabletTypeLowerName \cup {<<k, ToLower(MapGet(TabletType_name, k))>>}
        /\ initTodo' = initTodo \ {k}
    /\ UNCHANGED <<phase, reader, op, arg, res>>

\* init() returns; only now can code outside init() run.
InitReturn ==
    /\ phase = "init"
    /\ initTodo = {}
    /\ phase' = "ready"
    /\ UNCHANGED <<initTodo, tabletTypeLowerName, reader, op, arg, res>>

\* The calls: each runs one function on an argument drawn from its inputs and
\* leaves the package state alone.  No call can start before init() has
\* returned.  op, arg and res hold the call until its caller has taken the
\* result (Return).
\* Less is called on every pair of positions of the list.

CallTabletAliasIsZero ==
    /\ phase = "ready"
    /\ op = "none"
    /\ \E ta \in AliasValues :
        /\ op' = "TabletAliasIsZero"
        /\ arg' = Of("TabletAliasIsZero", ta)
        /\ res' = Of("TabletAliasIsZero", TabletAliasIsZero(ta))
    /\ UNCHANGED <<phase, initTodo, tabletTypeLowerName, reader>>

CallTabletAliasString ==
    /\ phase = "ready"
    /\ op = "none"
    /\ \E ta \in AliasValues :
        /\ op' = "TabletAliasString"
        /\ arg' = Of("TabletAliasString", ta)
        /\ res' = Of("TabletAliasString", TabletAliasString(ta))
    /\ UNCHANGED <<phase, initTodo, tabletTypeLowerName, reader>>

CallParseTabletAlias ==
    /\ phase = "ready"
    /\ op = "none"
    /\ \E aliasStr \in AliasStrings :
        /\ op' = "ParseTabletAlias"
        /\ arg' = Of("ParseTabletAlias", aliasStr)
        /\ res' = Of("ParseTabletAlias", ParseTabletAlias(aliasStr))
    /\ UNCHANGED <<phase, initTodo, tabletTypeLowerName, reader>>

CallLess ==
    /\ phase = "ready"
    /\ op = "none"
    /\ \E tal \in SortLists :
        /\ op' = "Less"
        /\ arg' = Of("Less", tal)
        /\ res' = Of("Less",
                     [i \in 1..Len(tal) |->
                      [j \in 1..Len(tal) |-> TabletAliasListLess(tal, i, j)]])
    /\ UNCHANGED <<phase, initTodo, tabletTypeLowerName, reader>>

CallSort ==
    /\ phase = "ready"
    /\ op = "none"
    /\ \E tal \in SortLists :
        /\ op' = "Sort"
        /\ arg' = Of("Sort", tal)
        /\ res' = Of("Sort", SortTabletAliasList(tal))
    /\ UNCHANGED <<phase, initTodo, tabletTypeLowerName, reader>>

CallToStringSlice ==
    /\ phase = "ready"
    /\ op = "none"
    /\ \E tal \in SliceLists :
        /\ op' = "ToStringSlice"
        /\ arg' = Of("ToStringSlice", tal)
        /\ res' = Of("ToStringSlice", ToStringSlice(tal))
    /\ UNCHANGED <<phase, initTodo, tabletTypeLowerName, reader>>

CallParseTabletType ==
    /\ phase = "ready"
    /\ op = "none"
    /\ \E param \in TypeEntries :
        /\ op' = "ParseTabletType"
        /\ arg' = Of("ParseTabletType", param)
        /\ res' = Of("ParseTabletType", ParseTabletType(param))
    /\ UNCHANGED <<phase, initTodo, tabletTypeLowerName, reader>>

CallParseTabletTypes ==
    /\ phase = "ready"
    /\ op = "none"
    /\ \E param \in TypeListStrings :
        /\ op' = "ParseTabletTypes"
        /\ arg' = Of("ParseTabletTypes", param)
        /\ res' = Of("ParseTabletTypes", ParseTabletTypes(param))
    /\ UNCHANGED <<phase, initTodo, tabletTypeLowerName, reader>>

CallTabletTypeLString ==
    /\ phase = "ready"
    /\ op = "none"
    /\ \E tabletType \in TabletTypeNumbers :
        /\ op' = "TabletTypeLString"
        /\ arg' = Of("TabletTypeLString", tabletType)
        /\ res' = Of("TabletTypeLString",
                     TabletTypeLString(tabletTypeLowerName, tabletType))
    /\ UNCHANGED <<phase, initTodo, tabletTypeLowerName, reader>>

CallIsServingType ==
    /\ phase = "ready"
    /\ op = "none"
    /\ \E tabletType \in TabletTypeNumbers :
        /\ op' = "IsServingType"
        /\ arg' = Of("IsServingType", tabletType)
        /\ res' = Of("IsServingType", IsServingType(tabletType))
    /\ UNCHANGED <<phase, initTodo, tabletTypeLowerName, reader>>

CallMakeStringTypeList ==
    /\ phase = "ready"
    /\ op = "none"
    /\ \E types \in TypeLists :
        /\ op' = "MakeStringTypeList"
        /\ arg' = Of("MakeStringTypeList", types)
        /\ res' = Of("MakeStringTypeList", MakeStringTypeList(types))
    /\ UNCHANGED <<phase, initTodo, tabletTypeLowerName, reader>>

CallMakeUniqueStringTypeList ==
    /\ phase = "ready"
    /\ op = "none"
    /\ \E types \in TypeLists :
        /\ op' = "MakeUniqueStringTypeList"
        /\ arg' = Of("MakeUniqueStringTypeList", types)
        /\ res' = Of("MakeUniqueStringTypeList",
                     MakeUniqueStringTypeList(types))
    /\ UNCHANGED <<phase, initTodo, tabletTypeLowerName, reader>>

CallTabletDbName ==
    /\ phase = "ready"
    /\ op = "none"
    /\ \E tablet \in Tablets :
        /\ op' = "TabletDbName"
        /\ arg' = Of("TabletDbName", tablet)
        /\ res' = Of("TabletDbName", TabletDbName(tablet))
    /\ UNCHANGED <<phase, initTodo, tabletTypeLowerName, reader>>

\* The caller takes the result; the next call can be made.
Return ==
    /\ op # "none"
    /\ op' = "none"
    /\ arg' = Of("none", <<>>)
    /\ res' = Of("none", <<>>)
    /\ UNCHANGED <<phase, initTodo, tabletTypeLowerName, reader>>

Next ==
    \/ InitLoop
    \/ InitReturn
    \/ CallTabletAliasIsZero
    \/ CallTabletAliasString
    \/ CallParseTabletAlias
    \/ CallLess
    \/ CallSort
    \/ CallToStringSlice
    \/ CallParseTabletType
    \/ CallParseTabletTypes
    \/ CallTabletTypeLString
    \/ CallIsServingType
    \/ CallMakeStringTypeList
    \/ CallMakeUniqueStringTypeList
    \/ CallTabletDbName
    \/ Return

Spec == Init /\ [][Next]_vars

---------------------------------------------------------------------------
(* Goroutines inside TabletTypeLString, step by step *)

\* TabletTypeLString that stores "unknown" in the table on a miss.
ReaderLookupCaching(p, tt) ==
    /\ phase = "ready"
    /\ reader[p].pc # "looked"
    /\ reader' = [reader EXCEPT ![p] =
           [pc |-> "looked", tabletType |-> tt,
            value |-> IF MapHas(tabletTypeLowerName, tt)
                      THEN MapGet(tabletTypeLowerName, tt) ELSE <<>>,
            ok |-> MapHas(tabletTypeLowerName, tt)]]
    /\ tabletTypeLowerName' =
           IF MapHas(tabletTypeLowerName, tt) THEN tabletTypeLowerName
           ELSE tabletTypeLowerName \cup {<<tt, Name_unknown>>}
    /\ UNCHANGED <<phase, initTodo, op, arg, res>>

\* Line 202: value, ok := tabletTypeLowerName[int32(tabletType)]
ReaderLookup(p, tt) ==
    /\ phase = "ready"
    /\ reader[p].pc # "looked"
    /\ reader' = [reader EXCEPT ![p] =
           [pc |-> "looked", tabletType |-> tt,
            value |-> IF MapHas(tabletTypeLowerName, tt)
                      THEN MapGet(tabletTypeLowerName, tt) ELSE <<>>,
            ok |-> MapHas(tabletTypeLowerName, tt)]]
    /\ UNCHANGED <<phase, initTodo, tabletTypeLowerName, op, arg, res>>

\* Lines 203-206: return "unknown" on a miss, the value otherwise.
ReaderReturn(p) ==
    /\ phase = "ready"
    /\ reader[p].pc = "looked"
    /\ reader' = [reader EXCEPT ![p] =
           [pc |-> "returned", tabletType |-> reader[p].tabletType,
            value |-> IF ~reader[p].ok THEN Name_unknown ELSE reader[p].value,
            ok |-> reader[p].ok]]
    /\ UNCHANGED <<phase, initTodo, tabletTypeLowerName, op, arg, res>>

NextTable ==
    \/ InitLoop
    \/ InitReturn
    \/ \E p \in 1..NumReaders, tt \in TabletTypeNumbers : ReaderLookup(p, tt)
    \/ \E p \in 1..NumReaders : ReaderReturn(p)

SpecTable == Init /\ [][NextTable]_vars

---------------------------------------------------------------------------
(* Vocabulary of the properties, stated without the model's operators *)

\* The bytes of [-_.a-zA-Z0-9].
LegalCellBytes == {45, 46, 95} \cup (48..57) \cup (65..90) \cup (97..122)
DigitBytes == 48..57

\* s is <cell>-<uid> split at position i: a non-empty run of legal bytes, the
\* hyphen at i, a non-empty run of digits to the end.
SplitsAt(s, i) ==
    /\ i > 1 /\ i < Len(s) /\ s[i] = 45
    /\ \A k \in 1..(i - 1) : s[k] \in LegalCellBytes
    /\ \A k \in (i + 1)..Len(s) : s[k] \in DigitBytes
MatchesFormat(s) == \E i \in 1..Len(s) : SplitsAt(s, i)
SplitOf(s) == CHOOSE i \in 1..Len(s) : SplitsAt(s, i)
CellOf(s) == SubSeq(s, 1, SplitOf(s) - 1)
DigitsOf(s) == SubSeq(s, SplitOf(s) + 1, Len(s))

\* A digit run without its leading zeros ("0" for a run of zeros).
RECURSIVE StripZeros(_)
StripZeros(d) == IF Len(d) > 1 /\ d[1] = 48 THEN StripZeros(Tail(d)) ELSE d

\* Lexicographic order of byte strings, by the first position that differs.
LexLess(s, t) ==
    \E k \in 1..Len(t) :
        /\ k <= Len(s) + 1
        /\ \A m \in 1..(k - 1) : s[m] = t[m]
        /\ (k = Len(s) + 1 \/ s[k] < t[k])

MaxUint32Digits == Str(<<"4", "2", "9", "4", "9", "6", "7", "2", "9", "5">>)

\* The digit run denotes a number above 2^32 - 1.
AboveUint32(d) ==
    LET n == StripZeros(d)
    IN  Len(n) > 10 \/ (Len(n) = 10 /\ LexLess(MaxUint32Digits, n))

NilString == Str(<<"<", "n", "i", "l", ">">>)

---------------------------------------------------------------------------
(* C1 *)

\* C1 as stated: for every present alias whose cell has only bytes of
\* [-_.a-zA-Z0-9] (the empty cell included), parsing the formatted alias
\* succeeds and gives the alias back.
C1_RoundTripAnyLegalCell ==
    (op = "TabletAliasString" /\ ~Arg.isNil
        /\ \A k \in 1..Len(Arg.Cell) : Arg.Cell[k] \in LegalCellBytes)
    => ParseTabletAlias(Res) = [ta |-> Arg, err |-> NoErr]

\* C1 amended: for every present alias whose cell is NON-EMPTY and has only
\* bytes of [-_.a-zA-Z0-9], and every uint32 uid, ParseTabletAlias of
\* TabletAliasString(alias) succeeds and returns the same cell and uid.
C1_RoundTrip ==
    (op = "TabletAliasString" /\ ~Arg.isNil /\ Arg.Cell # <<>>
        /\ \A k \in 1..Len(Arg.Cell) : Arg.Cell[k] \in LegalCellBytes)
    => /\ ParseTabletAlias(Res).err = NoErr
       /\ ParseTabletAlias(Res).ta.Cell = Arg.Cell
       /\ ParseTabletAlias(Res).ta.Uid = Arg.Uid

\* A cell with hyphens and a digit, the largest uid, formatted and parsed back.
C1_Witness ==
    /\ op = "TabletAliasString"
    /\ Arg = TabletAlias(Str(<<"-", "a", "0">>), MaxUint32)
    /\ ParseTabletAlias(Res) = [ta |-> Arg, err |-> NoErr]

---------------------------------------------------------------------------
(* C2 *)

\* C2: ParseTabletAlias puts every input in exactly one of three classes: no
\* match of the anchored <cell>-<uid> pattern gives InvalidFormat; a match
\* whose digits denote more than 2^32 - 1 gives InvalidUid; anything else
\* succeeds with the cell and the digits' value.  A failure returns no alias.
C2_ParseClassifies ==
    op = "ParseTabletAlias" =>
        IF ~MatchesFormat(Arg)
        THEN Res.err.kind = "InvalidFormat" /\ Res.err.input = Arg /\ Res.ta = NilAlias
        ELSE IF AboveUint32(DigitsOf(Arg))
        THEN Res.err.kind = "InvalidUid" /\ Res.err.input = Arg /\ Res.ta = NilAlias
        ELSE /\ Res.err = NoErr
             /\ ~Res.ta.isNil
             /\ Res.ta.Cell = CellOf(Arg)
             /\ UidLeq(Res.ta.Uid, MaxUint32)
             /\ UidDecimal(Res.ta.Uid) = StripZeros(DigitsOf(Arg))

\* 4294967296 after a well-formed cell: the pattern matches, the uid does not fit.
C2_Witness ==
    /\ op = "ParseTabletAlias"
    /\ Arg = Str(<<"a", "-", "b", "-", "4", "2", "9", "4", "9", "6", "7", "2", "9", "6">>)
    /\ Res.err.kind = "InvalidUid"

---------------------------------------------------------------------------
(* C3 *)

\* C3 as stated: IsServingType is true for PRIMARY, REPLICA, BATCH and
\* EXPERIMENTAL and false for RDONLY, SPARE, BACKUP, RESTORE, DRAINED, UNKNOWN.
C3_ServingFalseForRdonly ==
    op = "IsServingType" =>
        /\ Arg \in {TabletType_PRIMARY, TabletType_REPLICA, TabletType_BATCH,
                    TabletType_EXPERIMENTAL} => Res = TRUE
        /\ Arg \in {TabletType_RDONLY, TabletType_SPARE, TabletType_BACKUP,
                    TabletType_RESTORE, TabletType_DRAINED, TabletType_UNKNOWN}
               => Res = FALSE

\* C3 amended: IsServingType is true exactly for PRIMARY, REPLICA,
\* EXPERIMENTAL and the one value that BATCH and RDONLY both name; it is
\* false for SPARE, BACKUP, RESTORE, DRAINED, UNKNOWN and for a number outside
\* the enum.
C3_Serving ==
    op = "IsServingType" =>
        /\ Arg \in {TabletType_PRIMARY, TabletType_REPLICA, TabletType_BATCH,
                    TabletType_RDONLY, TabletType_EXPERIMENTAL} => Res = TRUE
        /\ Arg \in {TabletType_SPARE, TabletType_BACKUP, TabletType_RESTORE,
                    TabletType_DRAINED, TabletType_UNKNOWN} => Res = FALSE
        /\ Arg \notin TabletTypes => Res = FALSE

\* IsServingType called with RDONLY.
C3_Witness ==
    /\ op = "IsServingType"
    /\ Arg = TabletType_RDONLY
    /\ Res = TRUE

---------------------------------------------------------------------------
(* C4 *)

Ascending(strs) == \A i, j \in 1..Len(strs) : i < j => ~LexLess(strs[j], strs[i])
StrictlyAscending(strs) == \A i, j \in 1..Len(strs) : i < j => LexLess(strs[i], strs[j])
Range(f) == {f[i] : i \in DOMAIN f}

\* C4: MakeStringTypeList returns one string per input type, ascending,
\* duplicates kept; MakeUniqueStringTypeList returns the distinct strings of
\* that result, each once, ascending; [BATCH, RDONLY] gives one string in
\* the unique form and two in the other.
C4_TypeLists ==
    /\ op = "MakeStringTypeList" =>
        /\ Len(Res) = Len(Arg)
        /\ Ascending(Res)
        /\ \A s \in Range(Res) :
               Cardinality({i \in 1..Len(Res) : Res[i] = s})
                   = Cardinality({i \in 1..Len(Arg) :
                                     ToLower(TabletTypeString(Arg[i])) = s})
        /\ Arg = <<TabletType_BATCH, TabletType_RDONLY>> => Len(Res) = 2
    /\ op = "MakeUniqueStringTypeList" =>
        /\ Range(Res) = Range(MakeStringTypeList(Arg))
        /\ StrictlyAscending(Res)
        /\ Arg = <<TabletType_BATCH, TabletType_RDONLY>> => Len(Res) = 1

\* The unique form of [BATCH, RDONLY] is the one string "rdonly".
C4_Witness ==
    /\ op = "MakeUniqueStringTypeList"
    /\ Arg = <<TabletType_BATCH, TabletType_RDONLY>>
    /\ Res = <<Str(<<"r", "d", "o", "n", "l", "y">>)>>

---------------------------------------------------------------------------
(* C5 *)

\* C5 as stated: ToStringSlice keeps length and order, its i-th string is
\* TabletAliasString of the i-th alias, and every empty alias (nil, or
\* Cell == "" and Uid == 0) becomes "<nil>".
C5_EmptyAliasesAreNil ==
    op = "ToStringSlice" =>
        /\ Len(Res) = Len(Arg)
        /\ \A i \in 1..Len(Arg) :
            /\ Res[i] = TabletAliasString(Arg[i])
            /\ TabletAliasIsZero(Arg[i]) => Res[i] = NilString

\* C5 amended: ToStringSlice keeps length and order, its i-th string is
\* TabletAliasString of the i-th alias; a nil alias becomes "<nil>", and
\* an alias that is present becomes <Cell>-<ten digits>, so the present
\* alias with Cell == "" and Uid == 0 becomes "-0000000000", not "<nil>".
C5_ToStringSlice ==
    op = "ToStringSlice" =>
        /\ Len(Res) = Len(Arg)
        /\ \A i \in 1..Len(Arg) :
            /\ Res[i] = TabletAliasString(Arg[i])
            /\ Arg[i].isNil => Res[i] = NilString
            /\ ~Arg[i].isNil =>
                /\ Len(Res[i]) = Len(Arg[i].Cell) + 11
                /\ SubSeq(Res[i], 1, Len(Arg[i].Cell)) = Arg[i].Cell
                /\ Res[i][Len(Arg[i].Cell) + 1] = 45
                /\ \A k \in (Len(Arg[i].Cell) + 2)..Len(Res[i]) : Res[i][k] \in DigitBytes
            /\ Arg[i] = TabletAlias(<<>>, UidZero) => Res[i] = Str(<<"-">>) \o Zeros(10)

\* A list holding nil, the present zero alias and an assigned alias.
C5_Witness ==
    /\ op = "ToStringSlice"
    /\ Arg = <<NilAlias, TabletAlias(<<>>, UidZero), TabletAlias(Str(<<"a">>), U32(0, 1))>>
    /\ Res[1] = NilString
    /\ Res[2] = Str(<<"-">>) \o Zeros(10)
---------------------------------------------------------------------------
(* C6 *)

\* a sorts before b: by cell lexicographically, then by uid numerically.
Before(a, b) ==
    \/ LexLess(a.Cell, b.Cell)
    \/ a.Cell = b.Cell /\ (a.Uid.hi < b.Uid.hi
                              \/ (a.Uid.hi = b.Uid.hi /\ a.Uid.lo < b.Uid.lo))

\* t holds the elements of s, each as often as s does.
IsPermutation(s, t) ==
    /\ Len(s) = Len(t)
    /\ \A x \in Range(s) :
           Cardinality({i \in 1..Len(s) : s[i] = x})
               = Cardinality({i \in 1..Len(t) : t[i] = x})
    /\ Range(s) = Range(t)

\* C6: Less(i, j) holds iff alias i is before alias j by cell, then uid; it
\* is irreflexive, asymmetric and transitive, and of two aliases that differ
\* exactly one is less than the other.  Sorting with it gives a permutation
\* of the input in that order; [{b,1},{a,5},{a,2}] becomes
\* [{a,2},{a,5},{b,1}].
C6_LessIsStrictTotalOrder ==
    /\ op = "Less" =>
        \A i, j \in 1..Len(Arg) :
            /\ Res[i][j] <=> Before(Arg[i], Arg[j])
            /\ ~Res[i][i]
            /\ Res[i][j] => ~Res[j][i]
            /\ Arg[i] # Arg[j] => (Res[i][j] \/ Res[j][i])
            /\ \A k \in 1..Len(Arg) : (Res[i][j] /\ Res[j][k]) => Res[i][k]
    /\ op = "Sort" =>
        /\ IsPermutation(Arg, Res)
        /\ \A i, j \in 1..Len(Res) : i < j => ~Before(Res[j], Res[i])
        /\ Arg = <<TabletAlias(Str(<<"b">>), U32(0, 1)), TabletAlias(Str(<<"a">>), U32(0, 5)),
                   TabletAlias(Str(<<"a">>), U32(0, 2))>>
             => Res = <<TabletAlias(Str(<<"a">>), U32(0, 2)), TabletAlias(Str(<<"a">>), U32(0, 5)),
                        TabletAlias(Str(<<"b">>), U32(0, 1))>>

\* The list [{b,1},{a,5},{a,2}] sorted.
C6_Witness ==
    /\ op = "Sort"
    /\ Arg = <<TabletAlias(Str(<<"b">>), U32(0, 1)), TabletAlias(Str(<<"a">>), U32(0, 5)),
               TabletAlias(Str(<<"a">>), U32(0, 2))>>
    /\ Res = <<TabletAlias(Str(<<"a">>), U32(0, 2)), TabletAlias(Str(<<"a">>), U32(0, 5)),
               TabletAlias(Str(<<"b">>), U32(0, 1))>>

---------------------------------------------------------------------------
(* C7 *)

\* Two strings equal up to the case of their ASCII letters.
FoldByte(b) == IF b \in 97..122 THEN b - 32 ELSE b
EqualFold(s, t) ==
    Len(s) = Len(t) /\ \A k \in 1..Len(s) : FoldByte(s[k]) = FoldByte(t[k])

\* The entry names a tablet type, and the type it names.
IsTypeName(e) == \E nv \in TabletType_value : EqualFold(e, nv[1])
TypeNamed(e) == (CHOOSE nv \in TabletType_value : EqualFold(e, nv[1]))[2]

\* The entries of a comma-separated string: entry k lies between the
\* (k-1)-th and the k-th comma, the ends of the string counting as commas.
CutPoints(s) == {0, Len(s) + 1} \cup {i \in 1..Len(s) : s[i] = 44}
CutPoint(s, k) ==
    CHOOSE c \in CutPoints(s) : Cardinality({x \in CutPoints(s) : x < c}) = k
NumEntries(s) == Cardinality(CutPoints(s)) - 1
EntryAt(s, k) == SubSeq(s, CutPoint(s, k - 1) + 1, CutPoint(s, k) - 1)

\* C7: ParseTabletTypes splits its input on ',' and parses the entries left
\* to right, matching names without regard to case and without trimming: if
\* every entry is a known name the result is one type per entry, in entry
\* order; otherwise the result is no list and the error of the first
\* unknown entry, the one ParseTabletType gives for it.
C7_ParseTabletTypes ==
    op = "ParseTabletTypes" =>
        LET n == NumEntries(Arg)
            bad == {i \in 1..n : ~IsTypeName(EntryAt(Arg, i))}
        IN  IF bad = {}
            THEN /\ Res.err = NoErr
                 /\ Len(Res.types) = n
                 /\ \A i \in 1..n : Res.types[i] = TypeNamed(EntryAt(Arg, i))
            ELSE LET first == CHOOSE i \in bad : \A j \in bad : i <= j
                 IN  /\ Res.types = <<>>
                     /\ Res.err.kind = "UnknownRole"
                     /\ Res.err.input = EntryAt(Arg, first)
                     /\ Res.err = ParseTabletType(EntryAt(Arg, first)).err

\* "replica, spare,bogus": the second entry has a leading blank and is the
\* first one rejected; the third is unknown too.
C7_Witness ==
    /\ op = "ParseTabletTypes"
    /\ Arg = Join(<<Str(<<"r", "e", "p", "l", "i", "c", "a">>),
                    Str(<<" ", "s", "p", "a", "r", "e">>),
                    Str(<<"b", "o", "g", "u", "s">>)>>)
    /\ Res.types = <<>>
    /\ Res.err.input = Str(<<" ", "s", "p", "a", "r", "e">>)

---------------------------------------------------------------------------
(* C8 *)

\* The table init() builds: every number of the enum with its lower-cased name.
FullTable == {<<nv[1], ToLower(nv[2])>> : nv \in TabletType_name}

\* C8: tabletTypeLowerName is written only by init(), which has returned
\* before any goroutine can be inside TabletTypeLString; from then on no step
\* of any goroutine changes the table, so every lookup sees the whole table.
C8_TableWriteOnce ==
    /\ [](\A p \in 1..NumReaders :
            reader[p].pc # "idle" =>
                phase = "ready" /\ tabletTypeLowerName = FullTable)
    /\ [][phase = "ready" =>
            (phase' = "ready" /\ tabletTypeLowerName' = tabletTypeLowerName)]_vars
    /\ [][phase = "init" =>
            \A kv \in tabletTypeLowerName : kv \in tabletTypeLowerName']_vars

\* Two goroutines are inside TabletTypeLString at once, one of them after a
\* lookup that missed.
C8_Witness ==
    /\ reader[1].pc = "looked" /\ reader[1].tabletType = 9 /\ ~reader[1].ok
    /\ reader[2].pc = "looked" /\ reader[2].ok
    /\ tabletTypeLowerName = FullTable

---------------------------------------------------------------------------
(* C9 *)

\* C9: TabletDbName is DbNameOverride when that is non-empty, whatever the
\* keyspace; else "" when the keyspace is empty; else "vt_" and the keyspace.
C9_TabletDbName ==
    op = "TabletDbName" =>
        /\ Arg.DbNameOverride # <<>> => Res = Arg.DbNameOverride
        /\ (Arg.DbNameOverride = <<>> /\ Arg.Keyspace = <<>>) => Res = <<>>
        /\ (Arg.DbNameOverride = <<>> /\ Arg.Keyspace # <<>>) =>
               Res = Str(<<"v", "t", "_">>) \o Arg.Keyspace

\* An override with an empty keyspace.
C9_Witness ==
    /\ op = "TabletDbName"
    /\ Arg.DbNameOverride = Str(<<"d", "b">>)
    /\ Arg.Keyspace = <<>>
    /\ Res = Str(<<"d", "b">>)

---------------------------------------------------------------------------
(* C10 *)

\* C10: an alias ParseTabletAlias returns without error is present and has
\* a non-empty cell, so TabletAliasIsZero of it is false, also for uid 0.
C10_ParsedAliasIsNotZero ==
    (op = "ParseTabletAlias" /\ Res.err = NoErr) =>
        /\ ~Res.ta.isNil
        /\ Res.ta.Cell # <<>>
        /\ ~TabletAliasIsZero(Res.ta)

\* "--0" parses to cell "-" and uid 0.
C10_Witness ==
    /\ op = "ParseTabletAlias"
    /\ Arg = Str(<<"-", "-", "0">>)
    /\ Res.err = NoErr
    /\ Res.ta.Uid = UidZero

====
